---- MODULE Spec2Model ----
(***************************************************************************)
(* A model of the sudoku genetic-algorithm solver: the board state         *)
(* (SudokuGrid), the candidate (Chromosome), the population and its        *)
(* tournament selection, the genetic operators and the generation loop of  *)
(* Solver::solve.  Every draw from the shared random source is a choice    *)
(* over the values the draw can return.                                    *)
(***************************************************************************)
EXTENDS Integers, Sequences, FiniteSets, TLC

VARIABLES
    puzzle,          \* the SudokuGrid handed to Solver::solve
    params,          \* Solver::params_
    individuals,     \* Population::individuals_ (a vector, here a sequence)
    new_generation,  \* the buffer of Solver::run_generation
    gen,             \* the loop variable of Solver::solve
    parent1,         \* select_parents: index of the first parent (-1: none)
    parent2,         \* select_parents: index of the second parent (-1: nullptr)
    attempt,         \* select_parents: the retry counter
    result,          \* the SolverResult being built
    pc,              \* where the run of Solver::solve stands
    seen_best,       \* history: the largest fitness any member of any generation had
    first_solution,  \* history: the first generation holding a member of fitness 162 (-1: none)
    generations_run, \* history: how many times replace_generation was called
    op_a,            \* operator harness: first candidate
    op_b,            \* operator harness: second candidate
    tour,            \* selection harness: the last tournament (size, sample, winner)
    call             \* harnesses: the last call made (operation, argument, error outcome)

vars == << puzzle, params, individuals, new_generation, gen, parent1, parent2,
           attempt, result, pc, seen_best, first_solution, generations_run,
           op_a, op_b, tour, call >>

(***************************************************************************)
(* Bounds of the model.                                                    *)
(***************************************************************************)
MaxPop == 3
MaxGen == 2
MaxCells == 8

(***************************************************************************)
(* Program constants.                                                      *)
(***************************************************************************)
SIZE == 9
SUBBLOCK_SIZE == 3
NUM_SUBBLOCKS == 9
MAX_SCORE == 162
max_attempts == 10

Idx == 0 .. (SIZE - 1)

(***************************************************************************)
(* Puzzle definitions: sequences of characters, read row-major.            *)
(***************************************************************************)
PuzzleOpen ==
   << "0", "0", "4", "6", "7", "8", "9", "1", "2",
      "6", "7", "2", "1", "9", "5", "3", "4", "8",
      "1", "9", "8", "3", "4", "2", "5", "6", "7",
      "8", "5", "9", ".", "6", "1", "4", "2", "3",
      "4", "2", "6", "8", ".", "3", "7", "9", "1",
      "7", "1", "3", "9", "2", "4", "8", "5", "6",
      "9", "6", "1", "5", "3", "7", "2", "8", "4",
      "2", "8", "7", "4", "1", "9", "6", "3", "5",
      "3", "4", "5", "2", "8", "6", "1", "7", "9" >>

PuzzleComplete ==
   << "5", "3", "4", "6", "7", "8", "9", "1", "2",
      "6", "7", "2", "1", "9", "5", "3", "4", "8",
      "1", "9", "8", "3", "4", "2", "5", "6", "7",
      "8", "5", "9", "7", "6", "1", "4", "2", "3",
      "4", "2", "6", "8", "5", "3", "7", "9", "1",
      "7", "1", "3", "9", "2", "4", "8", "5", "6",
      "9", "6", "1", "5", "3", "7", "2", "8", "4",
      "2", "8", "7", "4", "1", "9", "6", "3", "5",
      "3", "4", "5", "2", "8", "6", "1", "7", "9" >>

PuzzleDuplicate ==
   << "5", "5", "4", "6", "7", "8", "9", "1", "2",
      "6", "7", "2", "1", "9", "5", "3", "4", "8",
      "1", "9", "0", "3", "4", "2", "5", "6", "7",
      "8", "5", "9", "0", "6", "1", "4", "2", "3",
      "4", "2", "6", "8", "0", "3", "7", "9", "1",
      "7", "1", "3", "9", "2", "4", "8", "5", "6",
      "9", "6", "1", "5", "3", "7", "2", "8", "4",
      "2", "8", "7", "4", "1", "9", "6", "3", "5",
      "3", "4", "5", "2", "8", "6", "1", "7", "9" >>

PuzzleLatin ==
   << "8", "5", "9", "7", "6", "1", "4", "2", "3",
      "6", "7", "2", "1", "9", "5", "3", "4", "8",
      "1", "9", "8", "3", "4", "2", "5", "6", "7",
      "5", "3", "4", "6", "7", "8", "9", "1", "2",
      "4", "2", "6", "8", "5", "3", "7", "9", "1",
      "7", "1", "3", "9", "2", "4", "8", "5", "6",
      "9", "6", "1", "5", "3", "7", "2", "8", "4",
      "2", "8", "7", "4", "1", "9", "6", "3", "5",
      "3", "4", "5", "2", "8", "6", "1", "7", "9" >>

PuzzlePair ==
   << "5", "3", "4", "6", "7", "8", "9", "1", "2",
      "6", "7", "2", "1", "9", "5", "3", "4", "8",
      "1", "9", "8", "3", "4", "2", "5", "6", "7",
      "8", "5", "9", "7", "6", "1", "4", "2", "3",
      "4", "2", "6", "8", "5", "3", "7", "9", "1",
      "7", "1", "3", "9", "2", "4", "8", "5", "6",
      "9", "6", "1", "5", "3", "7", "2", "8", "4",
      "2", "8", "7", "4", "1", "9", "0", "3", "5",
      "3", "4", "5", "2", "8", "6", "1", "0", "9" >>

PuzzleSingles ==
   << "0", "3", "4", "6", "7", "8", "9", "1", "2",
      "6", "7", "2", "1", "9", "5", "3", "4", "8",
      "1", "9", "8", "3", "4", "2", "5", "6", "7",
      "8", "5", "9", "7", "6", "1", "4", "2", "3",
      "4", "2", "6", "8", ".", "3", "7", "9", "1",
      "7", "1", "3", "9", "2", "4", "8", "5", "6",
      "9", "6", "1", "5", "3", "7", "2", "8", "4",
      "2", "8", "7", "4", "1", "9", "6", "3", "5",
      "3", "4", "5", "2", "8", "6", "1", "7", " " >>

\* Two free cells in sub-block 0, in different rows and columns, and two in
\* sub-block 3 below it, in one row and the same two columns; the given at
\* (0, 5) repeats a digit of row 0.
PuzzleTrade ==
   << "5", "3", "0", "6", "7", "4", "9", "1", "2",
      "0", "7", "2", "1", "9", "5", "3", "4", "8",
      "1", "9", "8", "3", "4", "2", "5", "6", "7",
      "8", "5", "9", "7", "6", "1", "4", "2", "3",
      "0", "2", "0", "8", "5", "3", "7", "9", "1",
      "7", "1", "3", "9", "2", "4", "8", "5", "6",
      "9", "6", "1", "5", "3", "7", "2", "8", "4",
      "2", "8", "7", "4", "1", "9", "6", "3", "5",
      "3", "4", "5", "2", "8", "6", "1", "7", "9" >>

(***************************************************************************)
(* Board State (SudokuGrid).  grid_ and fixed_ are 9x9 arrays, indexed     *)
(* [row][col] from 0.                                                      *)
(***************************************************************************)
DigitChars == << "1", "2", "3", "4", "5", "6", "7", "8", "9" >>

\* c >= '1' && c <= '9'
IsDigitChar(c) == \E d \in 1 .. 9 : DigitChars[d] = c

\* c - '0' for a digit character
CharDigit(c) == CHOOSE d \in 1 .. 9 : DigitChars[d] = c

\* SudokuGrid::SudokuGrid(): all cells empty, none fixed
EmptyGrid ==
    [ grid_  |-> [r \in Idx |-> [c \in Idx |-> 0]],
      fixed_ |-> [r \in Idx |-> [c \in Idx |-> FALSE]] ]

\* A mutant of TooShort: a string of exactly 81 characters is refused too.
TooShortOrExact(str) == Len(str) <= SIZE * SIZE

\* puzzle.length() < SIZE * SIZE, the test the constructor throws on
TooShort(str) == Len(str) < SIZE * SIZE

\* SudokuGrid::SudokuGrid(const std::string&), for a string of at least 81
\* characters: the character at i = row*9 + col (from 0) decides cell (row, col).
GridFromString(str) ==
    [ grid_  |-> [r \in Idx |-> [c \in Idx |->
                    LET ch == str[r * SIZE + c + 1]
                    IN  IF IsDigitChar(ch) THEN CharDigit(ch) ELSE 0]],
      fixed_ |-> [r \in Idx |-> [c \in Idx |-> IsDigitChar(str[r * SIZE + c + 1])]] ]

\* SudokuGrid::get
get(g, row, col) == g.grid_[row][col]

\* SudokuGrid::set
set(g, row, col, value) == [g EXCEPT !.grid_[row][col] = value]

\* SudokuGrid::is_fixed
is_fixed(g, row, col) == g.fixed_[row][col]

\* A mutant of count_unique: the empty value 0 is counted as a digit.
count_unique_with_zero(values) == Cardinality({values[i] : i \in Idx})

\* SudokuGrid::count_unique: how many of the digits 1..9 occur in the array
count_unique(values) ==
    Cardinality({values[i] : i \in Idx} \cap (1 .. 9))

get_row_score(g, row) == count_unique(g.grid_[row])

get_column_score(g, col) == count_unique([row \in Idx |-> g.grid_[row][col]])

RECURSIVE SumFrom(_, _, _)
\* f(lo) + ... + f(hi - 1), the accumulation loops of the scoring functions
SumFrom(f, lo, hi) == IF lo >= hi THEN 0 ELSE f[lo] + SumFrom(f, lo + 1, hi)

get_total_score(g) ==
    SumFrom([i \in Idx |-> get_row_score(g, i) + get_column_score(g, i)], 0, SIZE)

get_row_band_score(g, band_index) ==
    LET start_row == band_index * SUBBLOCK_SIZE
    IN  SumFrom([r \in Idx |-> get_row_score(g, r)], start_row, start_row + SUBBLOCK_SIZE)

get_column_stack_score(g, stack_index) ==
    LET start_col == stack_index * SUBBLOCK_SIZE
    IN  SumFrom([c \in Idx |-> get_column_score(g, c)], start_col, start_col + SUBBLOCK_SIZE)

\* SudokuGrid::subblock_top_left: << top, left >>
subblock_top_left(subblock_index) ==
    << (subblock_index \div SUBBLOCK_SIZE) * SUBBLOCK_SIZE,
       (subblock_index % SUBBLOCK_SIZE) * SUBBLOCK_SIZE >>

\* The cells of a sub-block in the order the nested r, c loops visit them.
SubblockCells(subblock_index) ==
    LET tl == subblock_top_left(subblock_index)
    IN  [k \in 1 .. (SUBBLOCK_SIZE * SUBBLOCK_SIZE) |->
            << tl[1] + ((k - 1) \div SUBBLOCK_SIZE), tl[2] + ((k - 1) % SUBBLOCK_SIZE) >>]

\* The test of get_subblock_non_fixed_positions on one cell
IsFreeCell(g, pos) == ~g.fixed_[pos[1]][pos[2]]

\* A mutant of get_subblock_non_fixed_positions: the block's first cell is
\* listed without the test of the fixed mask.
get_subblock_first_unchecked(g, subblock_index) ==
    LET Free(pos) == IsFreeCell(g, pos) \/ pos = subblock_top_left(subblock_index)
    IN  SelectSeq(SubblockCells(subblock_index), Free)

\* SudokuGrid::get_subblock_non_fixed_positions
get_subblock_non_fixed_positions(g, subblock_index) ==
    LET Free(pos) == IsFreeCell(g, pos)
    IN  SelectSeq(SubblockCells(subblock_index), Free)

\* A mutant of copy_row_band_from: only the band's first row is copied.
copy_row_band_short(g, other, band_index) ==
    LET start_row == band_index * SUBBLOCK_SIZE
        InBand(r) == r >= start_row /\ r <= start_row
    IN  [ grid_  |-> [r \in Idx |-> IF InBand(r) THEN other.grid_[r] ELSE g.grid_[r]],
          fixed_ |-> [r \in Idx |-> IF InBand(r) THEN other.fixed_[r] ELSE g.fixed_[r]] ]

\* SudokuGrid::copy_row_band_from
copy_row_band_from(g, other, band_index) ==
    LET start_row == band_index * SUBBLOCK_SIZE
        InBand(r) == r >= start_row /\ r < start_row + SUBBLOCK_SIZE
    IN  [ grid_  |-> [r \in Idx |-> IF InBand(r) THEN other.grid_[r] ELSE g.grid_[r]],
          fixed_ |-> [r \in Idx |-> IF InBand(r) THEN other.fixed_[r] ELSE g.fixed_[r]] ]

\* A mutant of copy_column_stack_from: only the stack's first column is copied.
copy_column_stack_first(g, other, stack_index) ==
    LET start_col == stack_index * SUBBLOCK_SIZE
    IN  [ grid_  |-> [r \in Idx |-> [c \in Idx |->
                        IF c = start_col THEN other.grid_[r][c] ELSE g.grid_[r][c]]],
          fixed_ |-> [r \in Idx |-> [c \in Idx |->
                        IF c = start_col THEN other.fixed_[r][c] ELSE g.fixed_[r][c]]] ]

\* SudokuGrid::copy_column_stack_from
copy_column_stack_from(g, other, stack_index) ==
    LET start_col == stack_index * SUBBLOCK_SIZE
        InStack(c) == c >= start_col /\ c < start_col + SUBBLOCK_SIZE
    IN  [ grid_  |-> [r \in Idx |-> [c \in Idx |->
                        IF InStack(c) THEN other.grid_[r][c] ELSE g.grid_[r][c]]],
          fixed_ |-> [r \in Idx |-> [c \in Idx |->
                        IF InStack(c) THEN other.fixed_[r][c] ELSE g.fixed_[r][c]]] ]

\* SudokuGrid::is_solved
is_solved(g) == get_total_score(g) = MAX_SCORE

(***************************************************************************)
(* Random Source (RandomGenerator).  A draw is a choice over what the      *)
(* generator can return.                                                   *)
(***************************************************************************)
\* rand_double(): a value of [0.0, 1.0), in hundredths
RandDoubles == {0, 50, 99}

\* rand_int(min, max)
rand_int(min, max) == min .. max

\* shuffle(vec): every reordering of the sequence
shuffle(vec) ==
    LET n == Len(vec)
    IN  {[i \in 1 .. n |-> vec[p[i]]] : p \in Permutations(1 .. n)}

\* two_distinct_indices(max_index): the pairs << i, j >> it can return
two_distinct_indices(max_index) ==
    { << i, IF j >= i THEN j + 1 ELSE j >> :
        i \in rand_int(0, max_index), j \in rand_int(0, max_index - 1) }

\* sample_indices(n, k): 0 .. n-1 shuffled, then resized to k
sample_indices(n, k) ==
    {SubSeq(sh, 1, k) : sh \in shuffle([i \in 1 .. n |-> i - 1])}

(***************************************************************************)
(* Candidate (Chromosome): a grid and its cached fitness.                  *)
(***************************************************************************)
\* Chromosome::Chromosome()
EmptyChromosome == [grid_ |-> EmptyGrid, cached_fitness_ |-> 0]

\* Chromosome::Chromosome(const SudokuGrid&)
ChromosomeOf(initial_puzzle) == [grid_ |-> initial_puzzle, cached_fitness_ |-> 0]

fitness(chrom) == chrom.cached_fitness_

\* A mutant of recalculate_fitness: the cache is left as it was.
recalculate_fitness_skipped(chrom) == chrom

\* Chromosome::recalculate_fitness
recalculate_fitness(chrom) ==
    [chrom EXCEPT !.cached_fitness_ = get_total_score(chrom.grid_)]

\* A mutant of is_solution: a near-perfect score counts as solved.
is_solution_loose(chrom) == fitness(chrom) >= MAX_SCORE - 4

\* Chromosome::is_solution
is_solution(chrom) == fitness(chrom) = MAX_SCORE

RECURSIVE PlaceMissing(_, _, _, _)
\* The placement loop of fill_subblock_random: the block's cells from the k-th
\* on, idx digits of `missing` already placed.
PlaceMissing(g, cells, k, missing) ==
    IF k > Len(cells) THEN g
    ELSE LET r == cells[k][1]
             c == cells[k][2]
         IN  IF get(g, r, c) = 0
             THEN PlaceMissing(set(g, r, c, Head(missing)), cells, k + 1, Tail(missing))
             ELSE PlaceMissing(g, cells, k + 1, missing)

RECURSIVE AscendingSeq(_, _)
\* The members of S from d up to 9, in increasing order (the d = 1..9 loop).
AscendingSeq(S, d) ==
    IF d > 9 THEN << >>
    ELSE (IF d \in S THEN << d >> ELSE << >>) \o AscendingSeq(S, d + 1)

\* Chromosome::fill_subblock_random: the chromosomes it can leave behind
fill_subblock_random(chrom, subblock_index) ==
    LET cells   == SubblockCells(subblock_index)
        present == {get(chrom.grid_, cells[k][1], cells[k][2]) : k \in 1 .. Len(cells)} \ {0}
        missing == AscendingSeq((1 .. 9) \ present, 1)
    IN  { [chrom EXCEPT !.grid_ = PlaceMissing(chrom.grid_, cells, 1, sh)] :
            sh \in shuffle(missing) }

RECURSIVE FillFrom(_, _)
\* The block loop of initialize_random from `block` on.
FillFrom(S, block) ==
    IF block = NUM_SUBBLOCKS THEN S
    ELSE FillFrom(UNION {fill_subblock_random(ch, block) : ch \in S}, block + 1)

\* Chromosome::initialize_random: the chromosomes it can leave behind
initialize_random(chrom) ==
    {recalculate_fitness(ch) : ch \in FillFrom({chrom}, 0)}

(***************************************************************************)
(* Genetic Operators.                                                      *)
(***************************************************************************)
RECURSIVE CrossBands(_, _, _, _)
\* The row-band loop of crossover from `band` on; g is child1's grid.
CrossBands(g, p1, p2, band) ==
    IF band = 3 THEN g
    ELSE LET score1 == get_row_band_score(p1.grid_, band)
             score2 == get_row_band_score(p2.grid_, band)
         IN  CrossBands(IF score2 > score1
                        THEN copy_row_band_from(g, p2.grid_, band)
                        ELSE g,
                        p1, p2, band + 1)

RECURSIVE CrossStacks(_, _, _, _)
\* The column-stack loop of crossover from `stack` on; g is child2's grid.
CrossStacks(g, p1, p2, stack) ==
    IF stack = 3 THEN g
    ELSE LET score1 == get_column_stack_score(p1.grid_, stack)
             score2 == get_column_stack_score(p2.grid_, stack)
         IN  CrossStacks(IF score2 > score1
                         THEN copy_column_stack_from(g, p2.grid_, stack)
                         ELSE copy_column_stack_from(g, p1.grid_, stack),
                         p1, p2, stack + 1)

\* A mutant of crossover: the children's fitness is not recomputed.
crossover_no_refresh(p1, p2) ==
    << [p1 EXCEPT !.grid_ = CrossBands(p1.grid_, p1, p2, 0)],
       [p1 EXCEPT !.grid_ = CrossStacks(p1.grid_, p1, p2, 0)] >>

\* crossover(parent1, parent2): << child1, child2 >>
crossover(p1, p2) ==
    << recalculate_fitness([p1 EXCEPT !.grid_ = CrossBands(p1.grid_, p1, p2, 0)]),
       recalculate_fitness([p1 EXCEPT !.grid_ = CrossStacks(p1.grid_, p1, p2, 0)]) >>

\* The swap of mutate_subblock: the values at pos1 and pos2 change places.
SwapCells(chrom, pos1, pos2) ==
    LET temp == get(chrom.grid_, pos1[1], pos1[2])
        g1   == set(chrom.grid_, pos1[1], pos1[2], get(chrom.grid_, pos2[1], pos2[2]))
    IN  [chrom EXCEPT !.grid_ = set(g1, pos2[1], pos2[2], temp)]

\* mutate_subblock(chrom, subblock_index): the chromosomes it can leave behind
mutate_subblock(chrom, subblock_index) ==
    LET positions == get_subblock_non_fixed_positions(chrom.grid_, subblock_index)
    IN  IF Len(positions) < 2
        THEN {chrom}
        ELSE { SwapCells(chrom, positions[ij[1] + 1], positions[ij[2] + 1]) :
                 ij \in two_distinct_indices(Len(positions) - 1) }

RECURSIVE MutateFrom(_, _, _)
\* The block loop of mutate from `block` on.  S holds the pairs
\* << chromosome, mutated >> the loop can have reached.
MutateFrom(S, block, mutation_rate) ==
    IF block = NUM_SUBBLOCKS THEN S
    ELSE MutateFrom(
            UNION { UNION { IF d < mutation_rate
                            THEN {<< m, TRUE >> : m \in mutate_subblock(st[1], block)}
                            ELSE {st} : d \in RandDoubles } : st \in S },
            block + 1, mutation_rate)

\* A mutant of mutate: the fitness is never recomputed.
mutate_no_refresh(chrom, mutation_rate) ==
    { st[1] : st \in MutateFrom({<< chrom, FALSE >>}, 0, mutation_rate) }

\* mutate(chrom, mutation_rate): the chromosomes it can leave behind
mutate(chrom, mutation_rate) ==
    { IF st[2] THEN recalculate_fitness(st[1]) ELSE st[1] :
        st \in MutateFrom({<< chrom, FALSE >>}, 0, mutation_rate) }

\* One trial of local_search: a copy of parent with one random sub-block
\* mutated and its fitness recomputed.
LocalSearchCandidates(parent) ==
    UNION { {recalculate_fitness(m) : m \in mutate_subblock(parent, block)} :
              block \in rand_int(0, NUM_SUBBLOCKS - 1) }

RECURSIVE LocalSearchFrom(_, _, _, _)
\* The trial loop of local_search from trial i on.  S holds the pairs
\* << best, best_fitness >> the loop can have reached.
LocalSearchFrom(S, parent, i, num_candidates) ==
    IF i >= num_candidates THEN S
    ELSE LocalSearchFrom(
            UNION { { IF fitness(candidate) > st[2]
                      THEN << candidate, fitness(candidate) >>
                      ELSE st : candidate \in LocalSearchCandidates(parent) } : st \in S },
            parent, i + 1, num_candidates)

\* A mutant of local_search: the last trial is returned, better or not.
local_search_last(parent, num_candidates) ==
    IF num_candidates <= 0 THEN {parent} ELSE LocalSearchCandidates(parent)

\* local_search(parent, num_candidates): the chromosomes it can return
local_search(parent, num_candidates) ==
    {st[1] : st \in LocalSearchFrom({<< parent, fitness(parent) >>}, parent, 0, num_candidates)}

(***************************************************************************)
(* Population.  individuals_ is a sequence; a member's index counts from 0 *)
(* as in the vector.                                                       *)
(***************************************************************************)
At(inds, idx) == inds[idx + 1]

\* Population::Population(puzzle, size): the member sequences it can build
NewPopulation(pz, size) ==
    [1 .. size -> initialize_random(ChromosomeOf(pz))]

\* std::max_element by fitness: the index of the first member no other exceeds
BestIndex(inds) ==
    CHOOSE i \in 0 .. (Len(inds) - 1) :
        /\ \A j \in 0 .. (Len(inds) - 1) : fitness(At(inds, j)) <= fitness(At(inds, i))
        /\ \A j \in 0 .. (i - 1) : fitness(At(inds, j)) < fitness(At(inds, i))

\* std::min_element by fitness: the index of the first member none is below
WorstIndex(inds) ==
    CHOOSE i \in 0 .. (Len(inds) - 1) :
        /\ \A j \in 0 .. (Len(inds) - 1) : fitness(At(inds, j)) >= fitness(At(inds, i))
        /\ \A j \in 0 .. (i - 1) : fitness(At(inds, j)) > fitness(At(inds, i))

\* Population::get_best on a non-empty population
get_best(inds) == At(inds, BestIndex(inds))

\* Population::get_worst on a non-empty population
get_worst(inds) == At(inds, WorstIndex(inds))

\* Population::best_fitness
best_fitness(inds) == IF Len(inds) = 0 THEN 0 ELSE fitness(get_best(inds))

\* Population::has_solution
has_solution(inds) == \E i \in 1 .. Len(inds) : is_solution(inds[i])

\* Population::get_solution on a population that has one: the first such member
get_solution(inds) ==
    inds[CHOOSE i \in 1 .. Len(inds) :
            /\ is_solution(inds[i])
            /\ \A j \in 1 .. (i - 1) : ~is_solution(inds[j])]

\* The clamp of tournament_select: min with the size, then max with 1
ClampTournament(tournament_size, n) ==
    LET a == IF tournament_size < n THEN tournament_size ELSE n
    IN  IF a > 1 THEN a ELSE 1

RECURSIVE ScanBest(_, _, _, _)
\* The scan of tournament_select over indices from the k-th on.
ScanBest(inds, indices, k, best_idx) ==
    IF k > Len(indices) THEN best_idx
    ELSE ScanBest(inds, indices, k + 1,
                  IF fitness(At(inds, indices[k])) > fitness(At(inds, best_idx))
                  THEN indices[k] ELSE best_idx)

\* A mutant of TournamentWinner: the first sampled member wins unscanned.
TournamentWinnerFirst(inds, indices) == indices[1]

\* The winner of a tournament over the sampled indices
TournamentWinner(inds, indices) == ScanBest(inds, indices, 1, indices[1])

\* Population::tournament_select on a non-empty population: the tournaments
\* it can hold, each with its clamped size, its sample and its winner
tournament_select(inds, tournament_size) ==
    LET k == ClampTournament(tournament_size, Len(inds))
    IN  { [size |-> k, indices |-> indices, best_idx |-> TournamentWinner(inds, indices)] :
            indices \in sample_indices(Len(inds), k) }

\* The fallback of select_parents: the first member that is not parent1
FirstOther(inds, p1) ==
    CHOOSE i \in 0 .. (Len(inds) - 1) :
        i # p1 /\ \A j \in 0 .. (i - 1) : j = p1

\* individuals_.empty(), the test get_best, get_worst and tournament_select
\* throw on
PopulationEmpty(inds) == Len(inds) = 0

\* A mutant of TooFewParents: one member is taken for enough.
TooFewParentsOne(inds) == Len(inds) < 1

\* individuals_.size() < 2, the test select_parents throws on
TooFewParents(inds) == Len(inds) < 2

RECURSIVE SecondParent(_, _, _)
\* The retry loop of select_parents from pass `tries` on, every earlier pass
\* having drawn parent1 again: the pairs << parent2, tries >> it can end
\* with.  winners holds the indices a tournament can return.
SecondParent(winners, p1, tries) ==
    IF tries >= max_attempts THEN {<< p1, tries >>}
    ELSE UNION { IF w # p1 THEN {<< w, tries >>}
                           ELSE SecondParent(winners, p1, tries + 1) : w \in winners }

\* A mutant of ScanOther: the scan stops at the first member, tested or not.
ScanOtherFirst(inds, p1, p2) == IF p2 = p1 THEN 0 ELSE p2

\* The fallback of select_parents: with parent2 == parent1 the members are
\* scanned for one that is not parent1; parent2 stays when there is none.
ScanOther(inds, p1, p2) ==
    IF p2 = p1 /\ \E i \in 0 .. (Len(inds) - 1) : i # p1
    THEN FirstOther(inds, p1)
    ELSE p2

\* Population::select_parents: the outcomes of one call, an error or the
\* indices of the two parents with the number of retries that drew parent1
select_parents(inds, tournament_size) ==
    IF TooFewParents(inds)
    THEN {[error |-> TRUE, parent1 |-> -1, parent2 |-> -1, attempt |-> 0]}
    ELSE LET winners == {t.best_idx : t \in tournament_select(inds, tournament_size)}
         IN  UNION { { [error |-> FALSE, parent1 |-> p1,
                        parent2 |-> ScanOther(inds, p1, r[1]), attempt |-> r[2]] :
                          r \in SecondParent(winners, p1, 0) } : p1 \in winners }

(***************************************************************************)
(* Solver.  The parameters are SolverParams; the rates are in hundredths.  *)
(* The progress report (report_interval) only prints and is left out.      *)
(***************************************************************************)
DefaultCrossoverRate == 30
DefaultMutationRate == 30
DefaultTournamentSize == 3
DefaultLocalSearchCandidates == 2

Puzzles ==
    {PuzzleOpen, PuzzlePair, PuzzleComplete, PuzzleDuplicate, PuzzleLatin, PuzzleSingles}

ParamSets ==
    { [ population_size         |-> p,
        max_generations         |-> g,
        crossover_rate          |-> DefaultCrossoverRate,
        mutation_rate           |-> DefaultMutationRate,
        tournament_size         |-> t,
        local_search_candidates |-> DefaultLocalSearchCandidates,
        use_local_search        |-> l,
        elitism                 |-> e ] :
        p \in 0 .. MaxPop, g \in {0, MaxGen}, t \in {1, DefaultTournamentSize},
        l \in BOOLEAN, e \in BOOLEAN }

\* SolverResult's default member initialisers
EmptyResult ==
    [ solved |-> FALSE, generations |-> 0, best_fitness |-> 0,
      best_individual |-> EmptyChromosome ]

\* The largest cached fitness among the members (0 for none): history only
MaxFitness(inds) ==
    IF Len(inds) = 0 THEN 0
    ELSE CHOOSE m \in {fitness(inds[i]) : i \in 1 .. Len(inds)} :
            \A i \in 1 .. Len(inds) : fitness(inds[i]) <= m

HoldsPerfect(inds) == \E i \in 1 .. Len(inds) : fitness(inds[i]) = 162

Max2(a, b) == IF a >= b THEN a ELSE b

\* What the history variables become when `inds` becomes generation g.
Record(inds, g) ==
    /\ seen_best' = Max2(seen_best, MaxFitness(inds))
    /\ first_solution' = IF first_solution = -1 /\ HoldsPerfect(inds) THEN g ELSE first_solution

HarnessIdle == UNCHANGED << op_a, op_b, tour, call >>

NoTour == [requested |-> 0, size |-> 0, indices |-> << >>, best_idx |-> -1]

NoCall == [op |-> "none", arg |-> 0, error |-> FALSE]

\* How many cells of the grid are not fixed
FreeCells(g) == Cardinality({rc \in Idx \X Idx : ~is_fixed(g, rc[1], rc[2])})

Init ==
    /\ puzzle \in {GridFromString(str) : str \in Puzzles}
    /\ params \in ParamSets
    /\ FreeCells(puzzle) * params.population_size <= MaxCells
    /\ individuals = << >>
    /\ new_generation = << >>
    /\ gen = 0
    /\ parent1 = -1
    /\ parent2 = -1
    /\ attempt = 0
    /\ result = EmptyResult
    /\ pc = "start"
    /\ seen_best = 0
    /\ first_solution = -1
    /\ generations_run = 0
    /\ op_a = EmptyChromosome
    /\ op_b = EmptyChromosome
    /\ tour = NoTour
    /\ call = NoCall

\* The result solve returns when the population holds a solution.
SolvedResult(inds, g) ==
    [ solved |-> TRUE, generations |-> g, best_fitness |-> MAX_SCORE,
      best_individual |-> get_solution(inds) ]

\* Solver::solve up to its loop: the population is built and looked through
\* for a solution.
SolveStart ==
    /\ pc = "start"
    /\ \E pop \in NewPopulation(puzzle, params.population_size) :
        /\ individuals' = pop
        /\ Record(pop, 0)
        /\ IF has_solution(pop)
           THEN /\ result' = SolvedResult(pop, 0)
                /\ pc' = "done"
                /\ gen' = gen
           ELSE /\ result' = result
                /\ pc' = "for"
                /\ gen' = 1
    /\ UNCHANGED << puzzle, params, new_generation, parent1, parent2, attempt,
                    generations_run >>
    /\ HarnessIdle

\* A mutant of ElitismSeed: the buffer starts empty whatever the flag says.
ElitismSeedNone(inds, elitism) == << >>

\* run_generation: the buffer before the fill loop
ElitismSeed(inds, elitism) == IF elitism THEN << get_best(inds) >> ELSE << >>

\* The loop test of solve passes and run_generation starts: the buffer is
\* seeded; get_best throws on an empty population.
BeginGeneration ==
    /\ pc = "for"
    /\ gen <= params.max_generations
    /\ IF params.elitism /\ Len(individuals) = 0
       THEN pc' = "error" /\ new_generation' = << >>
       ELSE pc' = "fill" /\ new_generation' = ElitismSeed(individuals, params.elitism)
    /\ UNCHANGED << puzzle, params, individuals, gen, parent1, parent2, attempt, result,
                    seen_best, first_solution, generations_run >>
    /\ HarnessIdle

\* The result solve returns when the generations are used up.
ExhaustedResult(inds, max_generations) ==
    [ solved |-> FALSE, generations |-> max_generations,
      best_fitness |-> best_fitness(inds), best_individual |-> get_best(inds) ]

\* The loop of solve ends without a solution; get_best throws on an empty
\* population.
Exhausted ==
    /\ pc = "for"
    /\ gen > params.max_generations
    /\ IF Len(individuals) = 0
       THEN pc' = "error" /\ result' = result
       ELSE pc' = "done" /\ result' = ExhaustedResult(individuals, params.max_generations)
    /\ UNCHANGED << puzzle, params, individuals, new_generation, gen, parent1, parent2,
                    attempt, seen_best, first_solution, generations_run >>
    /\ HarnessIdle

\* The fill loop goes on: select_parents checks the size and picks parent1.
SelectFirst ==
    /\ pc = "fill"
    /\ Len(new_generation) < Len(individuals)
    /\ IF Len(individuals) < 2
       THEN pc' = "error" /\ UNCHANGED << parent1, parent2, attempt >>
       ELSE \E t \in tournament_select(individuals, params.tournament_size) :
                /\ parent1' = t.best_idx
                /\ parent2' = -1
                /\ attempt' = 0
                /\ pc' = "select2"
    /\ UNCHANGED << puzzle, params, individuals, new_generation, gen, result,
                    seen_best, first_solution, generations_run >>
    /\ HarnessIdle

\* One pass of the retry loop of select_parents.
SelectRetry ==
    /\ pc = "select2"
    /\ attempt < max_attempts
    /\ \E t \in tournament_select(individuals, params.tournament_size) :
        /\ parent2' = t.best_idx
        /\ IF t.best_idx # parent1
           THEN pc' = "breed" /\ attempt' = attempt
           ELSE pc' = pc /\ attempt' = attempt + 1
    /\ UNCHANGED << puzzle, params, individuals, new_generation, gen, parent1, result,
                    seen_best, first_solution, generations_run >>
    /\ HarnessIdle

\* The retries are used up with parent2 == parent1: the linear scan.
SelectFallback ==
    /\ pc = "select2"
    /\ attempt >= max_attempts
    /\ parent2' = (IF parent2 = parent1 THEN FirstOther(individuals, parent1) ELSE parent2)
    /\ pc' = "breed"
    /\ UNCHANGED << puzzle, params, individuals, new_generation, gen, parent1, attempt,
                    result, seen_best, first_solution, generations_run >>
    /\ HarnessIdle

\* The pairs << child1, child2 >> one pass of the fill loop can make of the
\* parents: crossover or clone, then mutate, then the optional local search.
Offspring(p1, p2, prm) ==
    LET bases == { IF d < prm.crossover_rate THEN crossover(p1, p2) ELSE << p1, p2 >> :
                     d \in RandDoubles }
        Refine(ch) == IF prm.use_local_search /\ prm.local_search_candidates > 1
                      THEN local_search(ch, prm.local_search_candidates)
                      ELSE {ch}
        Grow(ch) == UNION {Refine(m) : m \in mutate(ch, prm.mutation_rate)}
    IN  UNION { Grow(b[1]) \X Grow(b[2]) : b \in bases }

\* A mutant of PushChildren: the children go to a copy and the buffer stays.
PushChildrenNone(buffer, child1, child2, size) == buffer

\* A mutant of PushChildren: child2 is appended without the test for room.
PushChildrenBoth(buffer, child1, child2, size) == buffer \o << child1, child2 >>

\* The two push_back calls that end a pass of the fill loop
PushChildren(buffer, child1, child2, size) ==
    LET one == Append(buffer, child1)
    IN  IF Len(one) < size THEN Append(one, child2) ELSE one

\* A mutant of Breed: child1 is a reference to parent1, not a copy, so what
\* becomes of child1 is written into the population.
BreedInPlace ==
    /\ pc = "breed"
    /\ \E ch \in Offspring(At(individuals, parent1), At(individuals, parent2), params) :
        /\ new_generation' = PushChildren(new_generation, ch[1], ch[2], Len(individuals))
        /\ individuals' = [individuals EXCEPT ![parent1 + 1] = ch[1]]
    /\ pc' = "fill"
    /\ UNCHANGED << puzzle, params, gen, parent1, parent2, attempt, result,
                    seen_best, first_solution, generations_run >>
    /\ HarnessIdle

\* The rest of a pass of the fill loop: the children are made and appended.
Breed ==
    /\ pc = "breed"
    /\ \E ch \in Offspring(At(individuals, parent1), At(individuals, parent2), params) :
        new_generation' = PushChildren(new_generation, ch[1], ch[2], Len(individuals))
    /\ pc' = "fill"
    /\ UNCHANGED << puzzle, params, individuals, gen, parent1, parent2, attempt, result,
                    seen_best, first_solution, generations_run >>
    /\ HarnessIdle

\* The fill loop ends: replace_generation, then solve looks for a solution.
Replace ==
    /\ pc = "fill"
    /\ Len(new_generation) >= Len(individuals)
    /\ individuals' = new_generation
    /\ generations_run' = generations_run + 1
    /\ Record(new_generation, gen)
    /\ IF has_solution(new_generation)
       THEN /\ result' = SolvedResult(new_generation, gen)
            /\ pc' = "done"
            /\ gen' = gen
       ELSE /\ result' = result
            /\ pc' = "for"
            /\ gen' = gen + 1
    /\ UNCHANGED << puzzle, params, new_generation, parent1, parent2, attempt >>
    /\ HarnessIdle

Next ==
    \/ SolveStart
    \/ BeginGeneration
    \/ Exhausted
    \/ SelectFirst
    \/ SelectRetry
    \/ SelectFallback
    \/ Breed
    \/ Replace

Spec == Init /\ [][Next]_vars

\* The runs the termination of solve is checked on: at least 2 members.
FairInit ==
    /\ Init
    /\ puzzle = GridFromString(PuzzlePair)
    /\ params.population_size = 2
    /\ params.tournament_size = 1
    /\ params.max_generations = MaxGen

\* solve runs on a single thread with no suspension point: a step that can be
\* taken is taken.
FairSpec == FairInit /\ [][Next]_vars /\ WF_vars(Next)

(***************************************************************************)
(* Operator harness: the genetic operators applied to two candidates in    *)
(* any order.  pc names the operator applied last.                         *)
(***************************************************************************)
MaxTrials == 2

OpRates == {0, DefaultMutationRate, 100}

OpsIdle ==
    UNCHANGED << puzzle, params, individuals, new_generation, gen, parent1, parent2,
                 attempt, result, seen_best, first_solution, generations_run, tour,
                 call >>

OpsInit ==
    /\ puzzle \in {GridFromString(str) : str \in Puzzles}
    /\ params \in {pr \in ParamSets : pr.population_size = 2 /\ pr.max_generations = 0
                                       /\ pr.elitism /\ pr.use_local_search
                                       /\ pr.tournament_size = DefaultTournamentSize}
    /\ individuals = << >>
    /\ new_generation = << >>
    /\ gen = 0
    /\ parent1 = -1
    /\ parent2 = -1
    /\ attempt = 0
    /\ result = EmptyResult
    /\ pc = "ops"
    /\ seen_best = 0
    /\ first_solution = -1
    /\ generations_run = 0
    /\ op_a \in initialize_random(ChromosomeOf(puzzle))
    /\ op_b \in initialize_random(ChromosomeOf(puzzle))
    /\ tour = NoTour
    /\ call = NoCall

OpCrossover ==
    /\ op_a' = crossover(op_a, op_b)[1]
    /\ op_b' = crossover(op_a, op_b)[2]
    /\ pc' = "crossover"
    /\ OpsIdle

OpMutate ==
    /\ \E rate \in OpRates : op_a' \in mutate(op_a, rate)
    /\ op_b' = op_b
    /\ pc' = "mutate"
    /\ OpsIdle

OpMutateSubblock ==
    /\ \E block \in 0 .. (NUM_SUBBLOCKS - 1) : op_a' \in mutate_subblock(op_a, block)
    /\ op_b' = op_b
    /\ pc' = "mutate_subblock"
    /\ OpsIdle

OpLocalSearch ==
    /\ \E n \in 0 .. MaxTrials : op_a' \in local_search(op_a, n)
    /\ op_b' = op_b
    /\ pc' = "local_search"
    /\ OpsIdle

\* The other candidate becomes the one the next operator is applied to.
OpTurn ==
    /\ op_a' = op_b
    /\ op_b' = op_a
    /\ pc' = "ops"
    /\ OpsIdle

OpsNext ==
    \/ OpCrossover
    \/ OpMutate
    \/ OpMutateSubblock
    \/ OpLocalSearch
    \/ OpTurn

OpsSpec == OpsInit /\ [][OpsNext]_vars

(***************************************************************************)
(* Single-call harness: one genetic operator is applied once to a          *)
(* candidate the operators can have produced; call holds the operator, its *)
(* argument (the rate, the sub-block or the number of trials) and the      *)
(* candidate it was applied to; for crossover also the second parent.      *)
(***************************************************************************)
\* What initialize_random leaves, and what one mutate_subblock makes of it
\* (its fitness is then not recomputed).
Candidates(pz) ==
    LET fresh == initialize_random(ChromosomeOf(pz))
    IN  fresh \cup UNION { mutate_subblock(ch, block) :
                             ch \in fresh, block \in 0 .. (NUM_SUBBLOCKS - 1) }

\* The puzzles the operators are applied on.
ApplyPuzzles == Puzzles \cup {PuzzleTrade}

ApplyInit ==
    /\ puzzle \in {GridFromString(str) : str \in ApplyPuzzles}
    /\ params \in {pr \in ParamSets : pr.population_size = 2 /\ pr.max_generations = 0
                                       /\ pr.elitism /\ pr.use_local_search
                                       /\ pr.tournament_size = DefaultTournamentSize}
    /\ individuals = << >>
    /\ new_generation = << >>
    /\ gen = 0
    /\ parent1 = -1
    /\ parent2 = -1
    /\ attempt = 0
    /\ result = EmptyResult
    /\ pc = "apply"
    /\ seen_best = 0
    /\ first_solution = -1
    /\ generations_run = 0
    /\ op_a \in Candidates(puzzle)
    /\ op_b \in initialize_random(ChromosomeOf(puzzle))
    /\ tour = NoTour
    /\ call = NoCall

ApplyIdle ==
    UNCHANGED << puzzle, params, individuals, new_generation, gen, parent1, parent2,
                 attempt, result, seen_best, first_solution, generations_run, tour >>

ApplyCrossover ==
    /\ pc = "apply"
    /\ op_a' = crossover(op_a, op_b)[1]
    /\ op_b' = crossover(op_a, op_b)[2]
    /\ call' = [op |-> "crossover", arg |-> 0, error |-> FALSE, input |-> op_a,
                other |-> op_b]
    /\ pc' = "applied"
    /\ ApplyIdle

ApplyMutate ==
    /\ pc = "apply"
    /\ \E rate \in OpRates :
        /\ op_a' \in mutate(op_a, rate)
        /\ call' = [op |-> "mutate", arg |-> rate, error |-> FALSE, input |-> op_a]
    /\ op_b' = op_b
    /\ pc' = "applied"
    /\ ApplyIdle

ApplyMutateSubblock ==
    /\ pc = "apply"
    /\ \E block \in 0 .. (NUM_SUBBLOCKS - 1) :
        /\ op_a' \in mutate_subblock(op_a, block)
        /\ call' = [op |-> "mutate_subblock", arg |-> block, error |-> FALSE, input |-> op_a]
    /\ op_b' = op_b
    /\ pc' = "applied"
    /\ ApplyIdle

ApplyLocalSearch ==
    /\ pc = "apply"
    /\ \E n \in -1 .. MaxTrials :
        /\ op_a' \in local_search(op_a, n)
        /\ call' = [op |-> "local_search", arg |-> n, error |-> FALSE, input |-> op_a]
    /\ op_b' = op_b
    /\ pc' = "applied"
    /\ ApplyIdle

ApplyNext ==
    \/ ApplyCrossover
    \/ ApplyMutate
    \/ ApplyMutateSubblock
    \/ ApplyLocalSearch

ApplySpec == ApplyInit /\ [][ApplyNext]_vars

(***************************************************************************)
(* Selection harness: tournament_select called with any size on a          *)
(* non-empty population.                                                   *)
(***************************************************************************)
SelectInit ==
    /\ puzzle \in {GridFromString(str) : str \in Puzzles}
    /\ params \in {pr \in ParamSets : pr.population_size >= 1 /\ pr.max_generations = 0
                                       /\ pr.elitism /\ pr.use_local_search
                                       /\ pr.tournament_size = DefaultTournamentSize}
    /\ FreeCells(puzzle) * params.population_size <= MaxCells
    /\ individuals \in NewPopulation(puzzle, params.population_size)
    /\ new_generation = << >>
    /\ gen = 0
    /\ parent1 = -1
    /\ parent2 = -1
    /\ attempt = 0
    /\ result = EmptyResult
    /\ pc = "select"
    /\ seen_best = 0
    /\ first_solution = -1
    /\ generations_run = 0
    /\ op_a = EmptyChromosome
    /\ op_b = EmptyChromosome
    /\ tour = NoTour
    /\ call = NoCall

TournamentSelect ==
    /\ \E k \in -1 .. (MaxPop + 1) :
        \E t \in tournament_select(individuals, k) :
            tour' = [requested |-> k, size |-> t.size, indices |-> t.indices,
                     best_idx |-> t.best_idx]
    /\ pc' = "selected"
    /\ UNCHANGED << puzzle, params, individuals, new_generation, gen, parent1, parent2,
                    attempt, result, seen_best, first_solution, generations_run,
                    op_a, op_b, call >>

SelectNext == TournamentSelect

SelectSpec == SelectInit /\ [][SelectNext]_vars

(***************************************************************************)
(* Population harness: get_best, get_worst, tournament_select and          *)
(* select_parents called on a population of any size, the empty one        *)
(* included.  call holds the operation, its argument and whether it threw; *)
(* parent1 and parent2 hold the indices of the members returned.  No call  *)
(* changes the population, so one call is made on each population.         *)
(***************************************************************************)
PopInit ==
    /\ puzzle \in {GridFromString(str) : str \in Puzzles}
    /\ params \in {pr \in ParamSets : pr.max_generations = 0
                                       /\ pr.elitism /\ pr.use_local_search
                                       /\ pr.tournament_size = DefaultTournamentSize}
    /\ FreeCells(puzzle) * params.population_size <= MaxCells
    /\ individuals \in NewPopulation(puzzle, params.population_size)
    /\ new_generation = << >>
    /\ gen = 0
    /\ parent1 = -1
    /\ parent2 = -1
    /\ attempt = 0
    /\ result = EmptyResult
    /\ pc = "pop"
    /\ seen_best = 0
    /\ first_solution = -1
    /\ generations_run = 0
    /\ op_a = EmptyChromosome
    /\ op_b = EmptyChromosome
    /\ tour = NoTour
    /\ call = NoCall

PopIdle ==
    /\ pc' = "called"
    /\ UNCHANGED << puzzle, params, individuals, new_generation, gen, result,
                    seen_best, first_solution, generations_run, op_a, op_b, tour >>

CallGetBest ==
    /\ pc = "pop"
    /\ IF PopulationEmpty(individuals)
       THEN call' = [op |-> "get_best", arg |-> 0, error |-> TRUE] /\ parent1' = -1
       ELSE call' = [op |-> "get_best", arg |-> 0, error |-> FALSE]
            /\ parent1' = BestIndex(individuals)
    /\ parent2' = -1
    /\ attempt' = 0
    /\ PopIdle

CallGetWorst ==
    /\ pc = "pop"
    /\ IF PopulationEmpty(individuals)
       THEN call' = [op |-> "get_worst", arg |-> 0, error |-> TRUE] /\ parent1' = -1
       ELSE call' = [op |-> "get_worst", arg |-> 0, error |-> FALSE]
            /\ parent1' = WorstIndex(individuals)
    /\ parent2' = -1
    /\ attempt' = 0
    /\ PopIdle

CallTournamentSelect ==
    /\ pc = "pop"
    /\ \E k \in -1 .. (MaxPop + 1) :
        IF PopulationEmpty(individuals)
        THEN call' = [op |-> "tournament_select", arg |-> k, error |-> TRUE] /\ parent1' = -1
        ELSE /\ call' = [op |-> "tournament_select", arg |-> k, error |-> FALSE]
             /\ \E t \in tournament_select(individuals, k) : parent1' = t.best_idx
    /\ parent2' = -1
    /\ attempt' = 0
    /\ PopIdle

CallSelectParents ==
    /\ pc = "pop"
    /\ \E k \in -1 .. (MaxPop + 1) :
        \E out \in select_parents(individuals, k) :
            /\ call' = [op |-> "select_parents", arg |-> k, error |-> out.error]
            /\ parent1' = out.parent1
            /\ parent2' = out.parent2
            /\ attempt' = out.attempt
    /\ PopIdle

PopNext ==
    \/ CallGetBest
    \/ CallGetWorst
    \/ CallTournamentSelect
    \/ CallSelectParents

PopSpec == PopInit /\ [][PopNext]_vars

(***************************************************************************)
(* Board harness: a SudokuGrid is constructed from a string of any length  *)
(* and its cells are set.  puzzle holds the grid; call holds the string    *)
(* handed to the constructor and whether it threw; pc tells whether the    *)
(* string constructor has built the grid.                                  *)
(***************************************************************************)
MaxExtra == 2

\* Characters a puzzle string is made of: the digits, the usual marks of an
\* empty cell, and the characters next to '1' and '9' in the character set.
Chars == { DigitChars[d] : d \in 1 .. 9 } \cup {"0", ".", " ", "x", "/", ":"}

RECURSIVE Tails(_)
\* The sequences of 1 to n characters that follow the 81st
Tails(n) ==
    IF n = 0 THEN {}
    ELSE Tails(n - 1) \cup [1 .. n -> {"7", "x"}]

Strings ==
    Puzzles
    \cup { [i \in 1 .. (SIZE * SIZE) |-> ch] : ch \in {"1", "0", "x"} }
    \cup { [PuzzleComplete EXCEPT ![i] = ch] : i \in {1, 81}, ch \in Chars }
    \cup { SubSeq(str, 1, n) : str \in {PuzzleComplete, PuzzleOpen}, n \in {0, 1, 80} }
    \cup { str \o tail : str \in {PuzzleComplete, PuzzleOpen}, tail \in Tails(MaxExtra) }

\* The cells the harness sets
SetCells == { << 0, 0 >>, << 0, 1 >> }

GridInit ==
    /\ puzzle = EmptyGrid
    /\ params \in {pr \in ParamSets : pr.population_size = 0 /\ pr.max_generations = 0
                                       /\ pr.elitism /\ pr.use_local_search
                                       /\ pr.tournament_size = DefaultTournamentSize}
    /\ individuals = << >>
    /\ new_generation = << >>
    /\ gen = 0
    /\ parent1 = -1
    /\ parent2 = -1
    /\ attempt = 0
    /\ result = EmptyResult
    /\ pc = "grid"
    /\ seen_best = 0
    /\ first_solution = -1
    /\ generations_run = 0
    /\ op_a = EmptyChromosome
    /\ op_b = EmptyChromosome
    /\ tour = NoTour
    /\ call = NoCall

GridIdle ==
    UNCHANGED << params, individuals, new_generation, gen, parent1, parent2, attempt,
                 result, seen_best, first_solution, generations_run, op_a, op_b, tour >>

\* SudokuGrid(const std::string&): it throws and no grid comes of it, or the
\* grid is built.
Construct ==
    /\ pc = "grid"
    /\ \E str \in Strings :
        IF TooShort(str)
        THEN /\ call' = [op |-> "SudokuGrid", arg |-> str, error |-> TRUE]
             /\ puzzle' = puzzle
             /\ pc' = pc
        ELSE /\ call' = [op |-> "SudokuGrid", arg |-> str, error |-> FALSE]
             /\ puzzle' = GridFromString(str)
             /\ pc' = "built"
    /\ GridIdle

\* SudokuGrid::set on one of the harness's cells
SetCell ==
    /\ \E pos \in SetCells : \E value \in 0 .. 9 :
        puzzle' = set(puzzle, pos[1], pos[2], value)
    /\ call' = [op |-> "set", arg |-> 0, error |-> FALSE]
    /\ pc' = pc
    /\ GridIdle

GridNext ==
    \/ Construct
    \/ SetCell

GridSpec == GridInit /\ [][GridNext]_vars

(***************************************************************************)
(* Properties.                                                             *)
(***************************************************************************)
Digits == 1 .. 9

\* Sub-block b of grid g holds each digit 1..9 in exactly one cell.
BlockValid(g, b) ==
    LET cells == SubblockCells(b)
    IN  \A d \in Digits :
            Cardinality({k \in 1 .. Len(cells) : g.grid_[cells[k][1]][cells[k][2]] = d}) = 1

BlocksValid(g) == \A b \in 0 .. 8 : BlockValid(g, b)

RowsValid(g) == \A r \in Idx : \A d \in Digits : Cardinality({c \in Idx : g.grid_[r][c] = d}) = 1

ColumnsValid(g) == \A c \in Idx : \A d \in Digits : Cardinality({r \in Idx : g.grid_[r][c] = d}) = 1

\* g has the fixed mask of pz and pz's digit at every fixed cell.
KeepsGivens(g, pz) ==
    /\ g.fixed_ = pz.fixed_
    /\ \A r \in Idx : \A c \in Idx : pz.fixed_[r][c] => g.grid_[r][c] = pz.grid_[r][c]

\* A puzzle with no empty cell that satisfies every uniqueness constraint.
CompleteValid(pz) ==
    /\ \A r \in Idx : \A c \in Idx : pz.fixed_[r][c] /\ pz.grid_[r][c] # 0
    /\ RowsValid(pz) /\ ColumnsValid(pz) /\ BlocksValid(pz)

Members(inds) == {inds[i] : i \in 1 .. Len(inds)}

\* C1: after Chromosome::initialize_random every sub-block of every member of
\* the initial population holds each digit 1..9 exactly once, for every puzzle.
C1_InitialBlocksValid ==
    (pc # "start" /\ generations_run = 0) =>
        \A ch \in Members(individuals) : BlocksValid(ch.grid_)

\* C2: crossover, mutate, mutate_subblock and local_search, applied in any
\* order to candidates whose sub-blocks each hold 1..9 exactly once, yield
\* only candidates whose sub-blocks each hold 1..9 exactly once.
C2_OperatorsKeepBlocks ==
    [][ (BlocksValid(op_a.grid_) /\ BlocksValid(op_b.grid_))
            => (BlocksValid(op_a'.grid_) /\ BlocksValid(op_b'.grid_)) ]_vars

\* A crossover has produced two different children, both with valid sub-blocks.
C2_Witness ==
    /\ pc = "crossover"
    /\ BlocksValid(op_a.grid_) /\ BlocksValid(op_b.grid_)
    /\ op_a.grid_ # op_b.grid_

\* C3: in every generation of a solve run every individual (and every child
\* in the buffer) has the puzzle's fixed mask and the puzzle's digit at every
\* fixed cell.
C3_GivensKept ==
    \A ch \in Members(individuals) \cup Members(new_generation) : KeepsGivens(ch.grid_, puzzle)

\* A later generation holds two members with different grids.
C3_Witness ==
    /\ generations_run >= 1
    /\ \E x \in Members(individuals) : \E y \in Members(individuals) : x.grid_ # y.grid_
    /\ \E r \in Idx : \E c \in Idx : puzzle.fixed_[r][c]

\* C4: with elitism, replacing generation g by generation g+1 never lowers the
\* best fitness, and generation g+1 holds an unmodified copy of generation
\* g's best individual.
C4_ElitismMonotone ==
    [][ (params.elitism /\ generations_run' = generations_run + 1)
            => /\ MaxFitness(individuals') >= MaxFitness(individuals)
               /\ \E i \in 1 .. Len(individuals') : individuals'[i] = get_best(individuals) ]_vars

\* Two generations were replaced under elitism and the run goes on.
C4_Witness ==
    /\ params.elitism
    /\ generations_run >= 2
    /\ Len(individuals) >= 2
    /\ seen_best < MAX_SCORE

\* C5: whenever solve returns solved = true, the returned individual has every
\* row, column and sub-block holding 1..9 exactly once, agrees with the puzzle
\* at every given cell, and best_fitness is 162.
C5_SolvedIsValid ==
    (pc = "done" /\ result.solved) =>
        /\ RowsValid(result.best_individual.grid_)
        /\ ColumnsValid(result.best_individual.grid_)
        /\ BlocksValid(result.best_individual.grid_)
        /\ KeepsGivens(result.best_individual.grid_, puzzle)
        /\ result.best_fitness = 162

C7_ExhaustedReportsBestSeen ==
    (pc = "done" /\ ~result.solved) =>
        /\ fitness(result.best_individual) = result.best_fitness
        /\ result.best_fitness >= seen_best

\* C8: with at least 2 members every run of solve ends by returning: no
\* precondition error, at most max_generations generations, at most 10 retries
\* in select_parents, and every pass of the fill loop makes the buffer longer.
C8_Terminates ==
    /\ [](params.population_size >= 2 => pc # "error")
    /\ [](attempt <= 10 /\ generations_run <= params.max_generations)
    /\ [][pc = "breed" => Len(new_generation') > Len(new_generation)]_vars
    /\ ((pc = "start" /\ params.population_size >= 2) ~> (pc = "done"))

\* A run with at least 2 members used up all its generations and returned,
\* its last selection having gone through all 10 retries.
C8_Witness ==
    /\ pc = "done"
    /\ params.population_size >= 2
    /\ generations_run = params.max_generations
    /\ generations_run >= 2
    /\ attempt = 10

\* C9 as stated: for a complete, valid puzzle solve returns solved = true and
\* generations = 0 with the puzzle's own grid, whatever the parameters: it
\* never aborts and is done right after building the population.
C9_AsStated ==
    CompleteValid(puzzle) =>
        /\ pc # "error"
        /\ pc # "start" =>
            /\ pc = "done"
            /\ result.solved
            /\ result.generations = 0
            /\ result.best_individual.grid_ = puzzle

\* C9: for a complete, valid puzzle and a population of at least one member
\* solve returns solved = true and generations = 0 with the puzzle's own grid
\* right after building the population, without running a generation.
C9_CompletePuzzle ==
    (CompleteValid(puzzle) /\ params.population_size >= 1 /\ pc # "start") =>
        /\ pc = "done"
        /\ result.solved
        /\ result.generations = 0
        /\ result.best_individual.grid_ = puzzle
        /\ generations_run = 0
        /\ gen = 0

\* solve has returned for a complete, valid puzzle.
C9_Witness ==
    /\ CompleteValid(puzzle)
    /\ params.population_size >= 2
    /\ pc = "done"
    /\ result.solved

\* C10: tournament_select(k) on a non-empty population clamps k to
\* [1, size], samples that many distinct members and returns one of them whose
\* fitness is the largest in the sample; with k at least the size it returns a
\* member of the population's largest fitness.
C10_TournamentSelect ==
    pc = "selected" =>
        LET n == Len(individuals)
            k == tour.requested
        IN  /\ tour.size = (IF k < 1 THEN 1 ELSE IF k > n THEN n ELSE k)
            /\ Len(tour.indices) = tour.size
            /\ \A i \in 1 .. tour.size : tour.indices[i] \in 0 .. (n - 1)
            /\ \A i \in 1 .. tour.size : \A j \in 1 .. tour.size :
                    i # j => tour.indices[i] # tour.indices[j]
            /\ \E i \in 1 .. tour.size : tour.indices[i] = tour.best_idx
            /\ \A i \in 1 .. tour.size :
                    fitness(At(individuals, tour.indices[i])) <= fitness(At(individuals, tour.best_idx))
            /\ k >= n => fitness(At(individuals, tour.best_idx)) = MaxFitness(individuals)

\* A tournament over the whole of a population of unequal members was held
\* and the winner was not the first index sampled.
C10_Witness ==
    /\ pc = "selected"
    /\ Len(individuals) >= 2
    /\ tour.requested >= Len(individuals)
    /\ tour.best_idx # tour.indices[1]

\* C11: on a population of at least 2 members select_parents, whatever the
\* tournament size and the draws, ends without an error and returns two
\* members at different positions; after 10 retries that all drew the first
\* parent, the second parent is the member of lowest index other than the first.
C11_SelectParentsDistinct ==
    (call.op = "select_parents" /\ Len(individuals) >= 2) =>
        /\ ~call.error
        /\ parent1 \in 0 .. (Len(individuals) - 1)
        /\ parent2 \in 0 .. (Len(individuals) - 1)
        /\ parent1 # parent2
        /\ attempt \in 0 .. 10
        /\ attempt = 10 => parent2 = (IF parent1 = 0 THEN 1 ELSE 0)

\* All 10 retries drew the first parent, which is not member 0, in a
\* population of 3.
C11_Witness ==
    /\ call.op = "select_parents"
    /\ Len(individuals) = 3
    /\ attempt = 10
    /\ parent1 # 0
    /\ parent2 = 0

\* C12: get_best, get_worst and tournament_select on an empty population, and
\* select_parents on a population of fewer than 2 members, end in an error
\* and return no member; no call changes the population.
C12_PreconditionErrors ==
    /\ []( /\ (call.op \in {"get_best", "get_worst", "tournament_select"}
                 /\ Len(individuals) = 0) => (call.error /\ parent1 = -1)
           /\ (call.op = "select_parents" /\ Len(individuals) < 2)
                 => (call.error /\ parent1 = -1 /\ parent2 = -1) )
    /\ [][individuals' = individuals]_vars

\* select_parents was called on a population of one member and threw.
C12_Witness ==
    /\ call.op = "select_parents"
    /\ Len(individuals) = 1
    /\ call.error

\* C13: constructing a board from a string s of fewer than 81 characters
\* fails and produces no grid; otherwise, for each i in 0..80, cell
\* (i div 9, i mod 9) is fixed with value d exactly when s[i] is the digit d,
\* and is empty and not fixed for any other character; what follows the 81st
\* character has no effect.
C13_ConstructFromString ==
    /\ []( call.op = "SudokuGrid" =>
            IF Len(call.arg) < 81
            THEN call.error
            ELSE /\ ~call.error
                 /\ \A i \in 0 .. 80 :
                      LET r == i \div 9
                          c == i % 9
                          ch == call.arg[i + 1]
                      IN  /\ \A d \in 1 .. 9 :
                                (ch = ToString(d)) <=> (puzzle.fixed_[r][c] /\ puzzle.grid_[r][c] = d)
                          /\ (\A d \in 1 .. 9 : ch # ToString(d))
                                => (~puzzle.fixed_[r][c] /\ puzzle.grid_[r][c] = 0) )
    /\ [][ (call'.op = "SudokuGrid" /\ call'.error) => puzzle' = puzzle ]_vars

\* A string of more than 81 characters, with empty cells in it, was made a grid.
C13_Witness ==
    /\ call.op = "SudokuGrid"
    /\ ~call.error
    /\ Len(call.arg) > 81
    /\ \E r \in Idx : \E c \in Idx : ~puzzle.fixed_[r][c]
    /\ \E r \in Idx : \E c \in Idx : puzzle.fixed_[r][c]

\* C15: for a grid of values 0..9 get_total_score lies in 0..162, is 162
\* exactly when every row and every column holds 9 distinct non-zero digits,
\* and is_solved is true exactly then.
C15_TotalScore ==
    LET total == get_total_score(puzzle)
        full  == RowsValid(puzzle) /\ ColumnsValid(puzzle)
    IN  /\ total \in 0 .. 162
        /\ (total = 162) <=> full
        /\ is_solved(puzzle) <=> full

\* A set has completed a grid that lacked one cell.
C15_Witness ==
    /\ call.op = "set"
    /\ is_solved(puzzle)
    /\ ~puzzle.fixed_[0][0]

\* The cells (as << row, col >>) of sub-block b
BlockCellSet(b) ==
    { << 3 * (b \div 3) + i, 3 * (b % 3) + j >> : i \in 0 .. 2, j \in 0 .. 2 }

\* The cells of sub-block b that grid g does not hold fixed
FreeIn(g, b) == { p \in BlockCellSet(b) : ~g.fixed_[p[1]][p[2]] }

\* How many distinct digits 1..9 the rows `rows` of g hold, summed over the rows
RowsScore(g, rows) ==
    Cardinality({ rd \in rows \X Digits : \E c \in Idx : g.grid_[rd[1]][c] = rd[2] })

\* How many distinct digits 1..9 the columns `cols` of g hold, summed over the columns
ColumnsScore(g, cols) ==
    Cardinality({ cd \in cols \X Digits : \E r \in Idx : g.grid_[r][cd[1]] = cd[2] })

\* The total score of g: all rows plus all columns
TotalOf(g) == RowsScore(g, Idx) + ColumnsScore(g, Idx)

\* h is g with the values of two different non-fixed cells of one sub-block
\* exchanged, and differs from g.
SwappedTwo(g, h) ==
    /\ h # g
    /\ \E b \in 0 .. 8 : \E p \in FreeIn(g, b) : \E q \in FreeIn(g, b) :
        /\ p # q
        /\ h = [g EXCEPT !.grid_[p[1]][p[2]] = g.grid_[q[1]][q[2]],
                         !.grid_[q[1]][q[2]] = g.grid_[p[1]][p[2]]]

C16_Crossover ==
    [][ call'.op = "crossover" =>
          LET p1 == op_a.grid_
              p2 == op_b.grid_
              c1 == op_a'.grid_
              c2 == op_b'.grid_
              Band(b) == (3 * b) .. (3 * b + 2)
              FromRows(b) == IF RowsScore(p2, Band(b)) > RowsScore(p1, Band(b)) THEN p2 ELSE p1
              FromCols(b) == IF ColumnsScore(p2, Band(b)) > ColumnsScore(p1, Band(b)) THEN p2 ELSE p1
          IN  /\ \A b \in 0 .. 2 : \A r \in Band(b) : \A c \in Idx :
                    /\ c1.grid_[r][c] = FromRows(b).grid_[r][c]
                    /\ c1.fixed_[r][c] = FromRows(b).fixed_[r][c]
              /\ \A b \in 0 .. 2 : \A c \in Band(b) : \A r \in Idx :
                    /\ c2.grid_[r][c] = FromCols(b).grid_[r][c]
                    /\ c2.fixed_[r][c] = FromCols(b).fixed_[r][c]
              /\ op_a'.cached_fitness_ = TotalOf(c1)
              /\ op_b'.cached_fitness_ = TotalOf(c2) ]_vars

\* A crossover returned a child1 that is not parent1's grid (a band came from
\* parent2) and a child2 that is neither parent1's grid nor child1's.
C16_Witness ==
    /\ call.op = "crossover"
    /\ op_a.grid_ # call.input.grid_
    /\ op_b.grid_ # call.input.grid_
    /\ op_a.grid_ # op_b.grid_

\* C19 as stated: for every parent local_search returns a candidate of
\* fitness at least the parent's that is an exact copy of the parent (always
\* so with n <= 0) or the parent with two non-fixed cells of one sub-block
\* exchanged.
C19_AsStated ==
    [][ call'.op = "local_search" =>
          /\ op_a'.cached_fitness_ >= op_a.cached_fitness_
          /\ op_a' = op_a \/ SwappedTwo(op_a.grid_, op_a'.grid_)
          /\ call'.arg <= 0 => op_a' = op_a ]_vars

\* C19: for a parent whose cached fitness is its grid's total score,
\* local_search returns a candidate of fitness at least the parent's: an
\* exact copy of the parent (always so with n <= 0 or when no exchange of two
\* non-fixed cells of a sub-block scores strictly more), or the parent with
\* two non-fixed cells of one sub-block exchanged, of strictly greater
\* fitness, the fitness being the total score of its grid.
C19_LocalSearch ==
    [][ (call'.op = "local_search" /\ op_a.cached_fitness_ = TotalOf(op_a.grid_)) =>
          /\ op_a'.cached_fitness_ >= op_a.cached_fitness_
          /\ \/ op_a' = op_a
             \/ /\ SwappedTwo(op_a.grid_, op_a'.grid_)
                /\ op_a'.cached_fitness_ > op_a.cached_fitness_
                /\ op_a'.cached_fitness_ = TotalOf(op_a'.grid_)
          /\ call'.arg <= 0 => op_a' = op_a
          /\ (\A b \in 0 .. 8 : \A p \in FreeIn(op_a.grid_, b) : \A q \in FreeIn(op_a.grid_, b) :
                 TotalOf([op_a.grid_ EXCEPT !.grid_[p[1]][p[2]] = op_a.grid_.grid_[q[1]][q[2]],
                                            !.grid_[q[1]][q[2]] = op_a.grid_.grid_[p[1]][p[2]]])
                    <= op_a.cached_fitness_)
               => op_a' = op_a ]_vars

\* local_search with 2 trials has returned something better than a parent
\* whose cached fitness was right, and it is not yet a solution.
C19_Witness ==
    /\ call.op = "local_search"
    /\ call.arg = 2
    /\ call.input.cached_fitness_ = TotalOf(call.input.grid_)
    /\ op_a.cached_fitness_ > call.input.cached_fitness_
    /\ op_a.cached_fitness_ < 162

\* C17: with a configured size of at least 2, odd or even, elitism on or off,
\* the population has exactly the configured size in every generation of a
\* solve run, and the buffer of run_generation never grows beyond it.
C17_SizeConstant ==
    (pc # "start" /\ params.population_size >= 2) =>
        /\ Len(individuals) = params.population_size
        /\ Len(new_generation) <= params.population_size

\* A population of 3 without elitism, whose buffer two pairs of children
\* would overfill by one, has been replaced.
C17_Witness ==
    /\ params.population_size = 3
    /\ ~params.elitism
    /\ generations_run >= 1
    /\ Len(individuals) = 3

\* C18: whenever the population of a solve run is set (the initial one and
\* every replacement), every member's cached fitness is the total score of
\* its own grid.
C18_CacheValid ==
    [][ individuals' # individuals =>
          \A ch \in Members(individuals') : ch.cached_fitness_ = TotalOf(ch.grid_) ]_vars

\* A second generation, bred without elitism, holds members of different
\* fitness.
C18_Witness ==
    /\ generations_run >= 2
    /\ ~params.elitism
    /\ \E x \in Members(individuals) : \E y \in Members(individuals) :
          x.cached_fitness_ # y.cached_fitness_

\* C20: within a generation the population changes only by the final
\* replace_generation, which puts the full buffer in its place; every other
\* step of solve after the population is built leaves every member as it
\* was, and so does a generation that aborts on a precondition violation.
C20_PopulationFrame ==
    [][ /\ individuals' # individuals =>
              \/ pc = "start"
              \/ /\ pc = "fill"
                 /\ Len(new_generation) >= Len(individuals)
                 /\ individuals' = new_generation
                 /\ generations_run' = generations_run + 1
        /\ pc' = "error" => individuals' = individuals ]_vars

\* select_parents threw on a population of one member, elitism off.
C20_Witness ==
    /\ pc = "error"
    /\ Len(individuals) = 1
    /\ ~params.elitism

\* C21: for any two parents, each row-band of crossover's child1 has a band
\* score equal to the larger of the two parents' scores for that band, and
\* each column-stack of child2 has a stack score equal to the larger of the
\* two parents' scores for that stack; so the rows of child1 sum to at least
\* the rows of either parent, and the columns of child2 to at least the
\* columns of either parent.  The total score of a child carries no such
\* bound: C21_Witness is a crossover whose child1 scores less than both.
C21_RegionMonotone ==
    [][ call'.op = "crossover" =>
          LET p1 == op_a.grid_
              p2 == op_b.grid_
              c1 == op_a'.grid_
              c2 == op_b'.grid_
              Band(b) == (3 * b) .. (3 * b + 2)
          IN  /\ \A b \in 0 .. 2 :
                    RowsScore(c1, Band(b)) = Max2(RowsScore(p1, Band(b)), RowsScore(p2, Band(b)))
              /\ \A b \in 0 .. 2 :
                    ColumnsScore(c2, Band(b)) =
                        Max2(ColumnsScore(p1, Band(b)), ColumnsScore(p2, Band(b)))
              /\ RowsScore(c1, Idx) >= Max2(RowsScore(p1, Idx), RowsScore(p2, Idx))
              /\ ColumnsScore(c2, Idx) >= Max2(ColumnsScore(p1, Idx), ColumnsScore(p2, Idx)) ]_vars

\* crossover took a row-band of the second parent for child1, and child1's
\* fitness is below the fitness of both parents.
C21_Witness ==
    /\ call.op = "crossover"
    /\ \E b \in 0 .. 2 :
          RowsScore(call.other.grid_, (3 * b) .. (3 * b + 2)) >
              RowsScore(call.input.grid_, (3 * b) .. (3 * b + 2))
    /\ call.input.cached_fitness_ = TotalOf(call.input.grid_)
    /\ call.other.cached_fitness_ = TotalOf(call.other.grid_)
    /\ op_a.cached_fitness_ = TotalOf(op_a.grid_)
    /\ op_a.cached_fitness_ < call.input.cached_fitness_
    /\ op_a.cached_fitness_ < call.other.cached_fitness_

====
